---- MODULE Spec2Model ----
(***************************************************************************)
(* Model of the AI Content Engine: the service functions of                *)
(* services/geminiService.ts (response parsing, validation, error          *)
(* mapping, grounding-source deduplication, gallery fan-out) and the       *)
(* views that call them (App.handleSearch and the other tabs).             *)
(*                                                                         *)
(* An oracle response text is a sequence of tokens.  "FENCE" is a run of   *)
(* three backticks, "json" the language tag, "\n" a newline, " " a blank.  *)
(* JSON is tokenised as "{" "}" "[" "]" ",", scalar literals, and key      *)
(* tokens such as "events:" standing for the quoted key and its colon.     *)
(* Any other token (e.g. "Hi") is prose.                                   *)
(***************************************************************************)
EXTENDS Integers, Sequences, FiniteSets, TLC

----------------------------------------------------------------------------
(* Lexical classes *)

WS == {" ", "\n"}

Keys == {"events:", "ideas:", "uploadTip:", "audienceTip:", "primaryKeywords:",
         "longTailKeywords:", "relatedConcepts:", "metadata:", "name:", "country:"}

Scalars == {"null", "0", "7", "\"\"", "\"s\"", "\"t\""}

\* JavaScript falsy literals among the scalars (null, 0, "")
FalsyScalars == {"null", "0", "\"\""}

\* the value undefined (no JSON document is the empty token sequence)
Undefined == <<>>

----------------------------------------------------------------------------
(* String.prototype.trim *)

RECURSIVE TrimLeft(_)
TrimLeft(s) == IF s # <<>> /\ Head(s) \in WS THEN TrimLeft(Tail(s)) ELSE s

RECURSIVE TrimRight(_)
TrimRight(s) ==
  IF s # <<>> /\ s[Len(s)] \in WS THEN TrimRight(SubSeq(s, 1, Len(s) - 1)) ELSE s

Trim(s) == TrimRight(TrimLeft(s))

----------------------------------------------------------------------------
(* JSON.parse: a recursive-descent recogniser over tokens.  ParseValue     *)
(* returns the index after the value that starts at i, or 0 on a syntax    *)
(* error.  The parsed value is represented by its whitespace-free token    *)
(* sequence.                                                               *)

RECURSIVE SkipWS(_, _)
SkipWS(s, i) == IF i <= Len(s) /\ s[i] \in WS THEN SkipWS(s, i + 1) ELSE i

RECURSIVE ParseValue(_, _)
RECURSIVE ParseElements(_, _)
RECURSIVE ParseMembers(_, _)

\* after "[" and at least one value position: value ("," value)* "]"
ParseElements(s, i) ==
  LET j == ParseValue(s, SkipWS(s, i)) IN
  IF j = 0 THEN 0
  ELSE LET k == SkipWS(s, j) IN
       IF k > Len(s) THEN 0
       ELSE IF s[k] = "]" THEN k + 1
       ELSE IF s[k] = "," THEN ParseElements(s, k + 1)
       ELSE 0

\* after "{": key value ("," key value)* "}"
ParseMembers(s, i) ==
  LET k0 == SkipWS(s, i) IN
  IF k0 > Len(s) \/ s[k0] \notin Keys THEN 0
  ELSE LET j == ParseValue(s, SkipWS(s, k0 + 1)) IN
       IF j = 0 THEN 0
       ELSE LET k == SkipWS(s, j) IN
            IF k > Len(s) THEN 0
            ELSE IF s[k] = "}" THEN k + 1
            ELSE IF s[k] = "," THEN ParseMembers(s, k + 1)
            ELSE 0

ParseValue(s, i) ==
  IF i > Len(s) THEN 0
  ELSE IF s[i] \in Scalars THEN i + 1
  ELSE IF s[i] = "[" THEN
         LET k == SkipWS(s, i + 1) IN
         IF k <= Len(s) /\ s[k] = "]" THEN k + 1 ELSE ParseElements(s, i + 1)
  ELSE IF s[i] = "{" THEN
         LET k == SkipWS(s, i + 1) IN
         IF k <= Len(s) /\ s[k] = "}" THEN k + 1 ELSE ParseMembers(s, i + 1)
  ELSE 0

IsValidJSON(s) ==
  LET j == ParseValue(s, SkipWS(s, 1)) IN j # 0 /\ SkipWS(s, j) = Len(s) + 1

NotWS(t) == t \notin WS

\* JSON.parse(s): ok = FALSE stands for the SyntaxError it throws
JSONParse(s) ==
  IF IsValidJSON(s) THEN [ok |-> TRUE, v |-> SelectSeq(s, NotWS)]
  ELSE [ok |-> FALSE, v |-> Undefined]

----------------------------------------------------------------------------
(* Access to a parsed value (its whitespace-free token sequence) *)

\* the top-level members of an object from the key at index i on
RECURSIVE MembersFrom(_, _)
MembersFrom(v, i) ==
  IF i > Len(v) \/ v[i] \notin Keys THEN <<>>
  ELSE LET j == ParseValue(v, i + 1) IN
       <<[k |-> v[i], v |-> SubSeq(v, i + 1, j - 1)]>> \o
       (IF j <= Len(v) /\ v[j] = "," THEN MembersFrom(v, j + 1) ELSE <<>>)

Members(v) == IF v # <<>> /\ v[1] = "{" THEN MembersFrom(v, 2) ELSE <<>>

\* the elements of an array from the value at index i on
RECURSIVE ElementsFrom(_, _)
ElementsFrom(v, i) ==
  IF i > Len(v) \/ v[i] = "]" THEN <<>>
  ELSE LET j == ParseValue(v, i) IN
       <<SubSeq(v, i, j - 1)>> \o
       (IF j <= Len(v) /\ v[j] = "," THEN ElementsFrom(v, j + 1) ELSE <<>>)

Elements(v) == IF v # <<>> /\ v[1] = "[" THEN ElementsFrom(v, 2) ELSE <<>>

\* v.key for a non-null v: the last member with that key, else undefined
Get(v, key) ==
  LET ms == Members(v)
      idx == {i \in 1..Len(ms) : ms[i].k = key} IN
  IF idx = {} THEN Undefined
  ELSE ms[CHOOSE i \in idx : \A j \in idx : j <= i].v

IsNull(v) == v = <<"null">>

\* JavaScript truthiness of a value (objects and arrays are truthy)
Truthy(v) == v # Undefined /\ ~(Len(v) = 1 /\ v[1] \in FalsyScalars)

\* Array.isArray
IsArray(v) == v # <<>> /\ v[1] = "["

----------------------------------------------------------------------------
(* rawText.match(/FENCE(json)?\n([\s\S]*?)\n FENCE/), FENCE = 3 backticks *)

\* (mutation) greedy body: the greatest such index
FindCloseLast(s, k) ==
  LET idx == {j \in k..(Len(s) - 1) : s[j] = "\n" /\ s[j + 1] = "FENCE"} IN
  IF idx = {} THEN 0 ELSE CHOOSE j \in idx : \A m \in idx : m <= j

\* lazy body: the least index >= k with "\n" at k and "FENCE" at k + 1, else 0
RECURSIVE FindClose(_, _)
FindClose(s, k) ==
  IF k + 1 > Len(s) THEN 0
  ELSE IF s[k] = "\n" /\ s[k + 1] = "FENCE" THEN k
  ELSE FindClose(s, k + 1)

\* index of the first body token if the opening FENCE(json)?\n matches at i, else 0
OpenAt(s, i) ==
  IF i > Len(s) \/ s[i] # "FENCE" THEN 0
  ELSE IF i + 2 <= Len(s) /\ s[i + 1] = "json" /\ s[i + 2] = "\n" THEN i + 3
  ELSE IF i + 1 <= Len(s) /\ s[i + 1] = "\n" THEN i + 2
  ELSE 0

\* leftmost match from position i on; group 2 is the body
RECURSIVE MatchFrom(_, _)
MatchFrom(s, i) ==
  IF i > Len(s) THEN [found |-> FALSE, body |-> <<>>]
  ELSE LET b == OpenAt(s, i)
           k == IF b = 0 THEN 0 ELSE FindClose(s, b) IN
       IF k # 0 THEN [found |-> TRUE, body |-> SubSeq(s, b, k - 1)]
       ELSE MatchFrom(s, i + 1)

FenceMatch(s) == MatchFrom(s, 1)

----------------------------------------------------------------------------
(* Error messages of services/geminiService.ts *)

PARSE_MSG == "Failed to parse the AI's response. It was not in the expected JSON format."
FIND_MSG == "Failed to find events using AI. Please try again."
HOT_JSON_MSG == "The AI's response for hot topics was not in the expected JSON format."
HOT_STRUCT_MSG == "Invalid response structure from AI for hot topics."
HOT_FAIL_MSG == "Failed to fetch global hot topics. The AI may be busy."
CONTENT_FAIL_MSG == "Failed to generate AI content. Please check your API key and try again."
TREND_FAIL_MSG == "Failed to generate AI trend report. Please try another theme."
KEYWORD_FAIL_MSG == "Failed to generate keyword strategy. Please try another topic."
STOCK_FAIL_MSG == "Failed to generate stock metadata. Please try another topic or image."
IMAGE_FAIL_MSG == "Failed to generate AI image. The model may be unavailable."
GALLERY_FAIL_MSG == "Failed to generate the full inspiration gallery."

\* message of the SyntaxError thrown by JSON.parse (engine text; it names JSON)
SYNTAX_MSG == "Unexpected token in JSON"

\* messages with which ai.models.generateContent may reject
OracleErrors == {"Network request failed", "Invalid JSON payload received."}

\* message.includes("JSON")
IncludesJSON(m) ==
  m \in {PARSE_MSG, HOT_JSON_MSG, SYNTAX_MSG, "Invalid JSON payload received."}

----------------------------------------------------------------------------
(* Settled promises of the service functions.  data is a parsed value,     *)
(* events/sources the findEvents result, err the message of the Error.     *)

Resolve(d, ev, src) == [ok |-> TRUE, err |-> "", data |-> d, events |-> ev, sources |-> src]
Reject(m) == [ok |-> FALSE, err |-> m, data |-> Undefined, events |-> <<>>, sources |-> <<>>]

----------------------------------------------------------------------------
(* Thrown errors: name is "Error", "SyntaxError" or "TypeError".           *)

Err(n, m) == [name |-> n, message |-> m]

NoErr == Err("", "")

\* the SyntaxError of JSON.parse, the TypeError of a property read on null
\* or of calling .map on a non-array
JSONSyntaxError == Err("SyntaxError", SYNTAX_MSG)
JSTypeError == Err("TypeError", "Cannot read properties of null")

\* (mutation) no bare parse: a text without a fence is an error
ExtractDataFencedOnly(rawText, innerMsg) ==
  LET jsonMatch == FenceMatch(rawText)
      p == JSONParse(jsonMatch.body) IN
  IF jsonMatch.found /\ p.ok THEN [thrown |-> NoErr, data |-> p.v]
  ELSE [thrown |-> JSONSyntaxError, data |-> Undefined]

(* findEvents and getGlobalHotTopics: fence extraction, then bare parse.   *)
(* A fence with a non-empty interior is parsed outside the inner try, so   *)
(* its SyntaxError propagates; the bare parse is inside the inner try,     *)
(* whose catch throws new Error(innerMsg).                                 *)
ExtractData(rawText, innerMsg) ==
  LET jsonMatch == FenceMatch(rawText) IN
  IF jsonMatch.found /\ jsonMatch.body # <<>>
  THEN LET p == JSONParse(jsonMatch.body) IN
       IF p.ok THEN [thrown |-> NoErr, data |-> p.v]
       ELSE [thrown |-> JSONSyntaxError, data |-> Undefined]
  ELSE LET p == JSONParse(rawText) IN
       IF p.ok THEN [thrown |-> NoErr, data |-> p.v]
       ELSE [thrown |-> Err("Error", innerMsg), data |-> Undefined]

\* (mutation) ({country: countryCode, ...event}): the event's own country wins
SpreadCountryFirst(event, countryCode) ==
  LET ms == Members(event)
      NotCountry(m) == m.k # "country:"
      own == Get(event, "country:") IN
  [props |-> SelectSeq(ms, NotCountry),
   country |-> IF own = Undefined THEN countryCode ELSE own[1]]

\* ({...event, country: countryCode}): the event's own members other than
\* country, and the country member set to countryCode
SpreadWithCountry(event, countryCode) ==
  LET ms == Members(event)
      NotCountry(m) == m.k # "country:" IN
  [props |-> SelectSeq(ms, NotCountry), country |-> countryCode]

MapEvents(evs, countryCode) ==
  [i \in 1..Len(evs) |-> SpreadWithCountry(evs[i], countryCode)]

\* (mutation) the greatest index with that uri
FindIndexLast(self, uri) ==
  LET idx == {i \in 1..Len(self) : self[i].uri = uri} IN
  IF idx = {} THEN 0 ELSE CHOOSE i \in idx : \A j \in idx : j <= i

\* self.findIndex(t => t.uri === uri): least index with that uri (0 for -1)
FindIndex(self, uri) ==
  LET idx == {i \in 1..Len(self) : self[i].uri = uri} IN
  IF idx = {} THEN 0 ELSE CHOOSE i \in idx : \A j \in idx : i <= j

\* indices of self kept by filter((value, index, self) => index === findIndex)
RECURSIVE FilterFirst(_, _)
FilterFirst(self, i) ==
  IF i > Len(self) THEN <<>>
  ELSE (IF FindIndex(self, self[i].uri) = i THEN <<self[i]>> ELSE <<>>)
       \o FilterFirst(self, i + 1)

\* a grounding chunk is [web |-> BOOLEAN, uri |-> STRING, title |-> STRING];
\* an absent or empty uri/title is ""
HasWebUriTitle(c) == c.web /\ c.uri # "" /\ c.title # ""

ToSource(c) == [uri |-> c.uri, title |-> c.title]

MapSources(cs) == [i \in 1..Len(cs) |-> ToSource(cs[i])]

GroundingSources(groundingChunks) ==
  FilterFirst(MapSources(SelectSeq(groundingChunks, HasWebUriTitle)), 1)

\* the outer catch of findEvents
FindEventsCatch(error) ==
  IF error.name = "SyntaxError" THEN Reject(PARSE_MSG) ELSE Reject(FIND_MSG)

\* resp = [ok, err, text, chunks]: the settled generateContent call
findEvents(resp, countryCode) ==
  IF ~resp.ok THEN FindEventsCatch(Err("Error", resp.err))
  ELSE LET x == ExtractData(Trim(resp.text), PARSE_MSG) IN
       IF x.thrown # NoErr THEN FindEventsCatch(x.thrown)
       ELSE IF IsNull(x.data) THEN FindEventsCatch(JSTypeError)
       ELSE LET e == Get(x.data, "events:") IN
            IF Truthy(e) /\ ~IsArray(e) THEN FindEventsCatch(JSTypeError)
            ELSE Resolve(x.data,
                         MapEvents(IF Truthy(e) THEN Elements(e) ELSE <<>>, countryCode),
                         GroundingSources(resp.chunks))

\* the outer catch of getGlobalHotTopics
HotTopicsCatch(error) ==
  IF IncludesJSON(error.message) THEN Reject(error.message) ELSE Reject(HOT_FAIL_MSG)

getGlobalHotTopics(resp) ==
  IF ~resp.ok THEN HotTopicsCatch(Err("Error", resp.err))
  ELSE LET x == ExtractData(Trim(resp.text), HOT_JSON_MSG) IN
       IF x.thrown # NoErr THEN HotTopicsCatch(x.thrown)
       ELSE IF ~IsArray(x.data) THEN HotTopicsCatch(Err("Error", HOT_STRUCT_MSG))
       ELSE Resolve(x.data, <<>>, <<>>)

----------------------------------------------------------------------------
(* The structured-output endpoints: JSON.parse(response.text.trim()), a    *)
(* required-field check that throws the invalid-structure Error, and one   *)
(* catch that replaces every error thrown in the try by its own Error.     *)

INVALID_MSG == "Invalid response structure from AI."

\* (mutation) the payload goes through the fence extraction first
ParsePayloadFenced(resp) ==
  IF ~resp.ok THEN [thrown |-> Err("Error", resp.err), data |-> Undefined]
  ELSE LET x == ExtractData(Trim(resp.text), "") IN
       IF x.thrown # NoErr THEN [thrown |-> JSONSyntaxError, data |-> Undefined]
       ELSE IF IsNull(x.data) THEN [thrown |-> JSTypeError, data |-> Undefined]
       ELSE [thrown |-> NoErr, data |-> x.data]

\* the try body up to the parse: the error thrown (NoErr if none) and data
ParsePayload(resp) ==
  IF ~resp.ok THEN [thrown |-> Err("Error", resp.err), data |-> Undefined]
  ELSE LET p == JSONParse(Trim(resp.text)) IN
       IF ~p.ok THEN [thrown |-> JSONSyntaxError, data |-> Undefined]
       ELSE IF IsNull(p.v) THEN [thrown |-> JSTypeError, data |-> Undefined]
       ELSE [thrown |-> NoErr, data |-> p.v]

\* the error of the try body given the required-field test on data
ThrownBy(x, hasRequired) ==
  IF x.thrown # NoErr THEN x.thrown
  ELSE IF ~hasRequired THEN Err("Error", INVALID_MSG)
  ELSE NoErr

generateContentIdeas(resp) ==
  LET x == ParsePayload(resp)
      e == ThrownBy(x, Truthy(Get(x.data, "ideas:")) /\ Truthy(Get(x.data, "uploadTip:"))) IN
  IF e # NoErr THEN Reject(CONTENT_FAIL_MSG) ELSE Resolve(x.data, <<>>, <<>>)

generateTrendingIdeas(resp) ==
  LET x == ParsePayload(resp)
      e == ThrownBy(x, Truthy(Get(x.data, "ideas:")) /\ Truthy(Get(x.data, "audienceTip:"))) IN
  IF e # NoErr THEN Reject(TREND_FAIL_MSG) ELSE Resolve(x.data, <<>>, <<>>)

generateKeywordStrategy(resp) ==
  LET x == ParsePayload(resp)
      e == ThrownBy(x, /\ Truthy(Get(x.data, "primaryKeywords:"))
                       /\ Truthy(Get(x.data, "longTailKeywords:"))
                       /\ Truthy(Get(x.data, "relatedConcepts:"))) IN
  IF e # NoErr THEN Reject(KEYWORD_FAIL_MSG) ELSE Resolve(x.data, <<>>, <<>>)

generateStockMetadata(resp) ==
  LET x == ParsePayload(resp)
      e == ThrownBy(x, Truthy(Get(x.data, "metadata:")) /\ IsArray(Get(x.data, "metadata:"))) IN
  IF e # NoErr THEN Reject(STOCK_FAIL_MSG) ELSE Resolve(Get(x.data, "metadata:"), <<>>, <<>>)

\* parts of the image response: [inline |-> BOOLEAN, data |-> STRING];
\* the first part carrying inlineData is returned
generateInspirationalImage(resp) ==
  LET idx == {i \in 1..Len(resp.parts) : resp.parts[i].inline} IN
  IF ~resp.ok THEN Reject(IMAGE_FAIL_MSG)
  ELSE IF idx = {} THEN Reject(IMAGE_FAIL_MSG)
  ELSE Resolve(<<resp.parts[CHOOSE i \in idx : \A j \in idx : i <= j].data>>, <<>>, <<>>)

----------------------------------------------------------------------------
(* Oracle responses *)

TextResponse(t, cs) == [ok |-> TRUE, err |-> "", text |-> t, chunks |-> cs, parts |-> <<>>]
ImageResponse(ps) == [ok |-> TRUE, err |-> "", text |-> <<>>, chunks |-> <<>>, parts |-> ps]
FailedResponse(m) == [ok |-> FALSE, err |-> m, text |-> <<>>, chunks |-> <<>>, parts |-> <<>>]

----------------------------------------------------------------------------
(* Bounds and input sets of the service-function specification *)

MaxChunks == 4

Docs ==
  { <<"{", "events:", "[", "]", "}">>,
    <<"{", "events:", "[", "{", "name:", "\"s\"", "}", "]", "}">>,
    <<"{", "events:", "[", "{", "name:", "\"s\"", ",", "country:", "\"t\"", "}", ",",
                          "{", "name:", "\"t\"", "}", "]", "}">>,
    <<"{", " ", "events:", " ", "[", "\n", "]", " ", "}">>,
    <<"{", "}">>,
    <<"null">>,
    <<"7">>,
    <<"\"s\"">>,
    <<"[", "]">>,
    <<"[", "{", "name:", "\"s\"", "}", "]">>,
    <<"{", "events:", "\"s\"", "}">>,
    <<"{", "events:", "null", "}">>,
    <<"{", "name:", "\"s\"", "}">>,
    <<"{", "ideas:", "[", "]", ",", "uploadTip:", "\"s\"", "}">>,
    <<"{", "ideas:", "[", "{", "name:", "\"s\"", "}", "]", ",", "uploadTip:", "\"s\"", "}">>,
    <<"{", "ideas:", "[", "]", "}">>,
    <<"{", "uploadTip:", "\"s\"", "}">>,
    <<"{", "ideas:", "[", "]", ",", "uploadTip:", "\"\"", "}">>,
    <<"{", "ideas:", "[", "\"s\"", "]", ",", "audienceTip:", "\"s\"", "}">>,
    <<"{", "audienceTip:", "\"s\"", "}">>,
    <<"{", "primaryKeywords:", "[", "\"s\"", "]", ",", "longTailKeywords:", "[", "\"t\"", "]",
      ",", "relatedConcepts:", "[", "\"s\"", "]", "}">>,
    <<"{", "primaryKeywords:", "[", "\"s\"", "]", ",", "longTailKeywords:", "[", "\"t\"", "]", "}">>,
    <<"{", "metadata:", "[", "{", "name:", "\"s\"", "}", "]", "}">>,
    <<"{", "metadata:", "\"s\"", "}">>,
    \* not JSON
    <<>>,
    <<"Hi">>,
    <<"{", "events:">>,
    <<"{", "}", "Hi">>,
    <<"[", ",", "]">>,
    <<"[", "\n", "FENCE", "\n", "]">> }

Prefixes ==
  { <<>>,
    <<"Hi", "\n">>,
    <<" ", "\n">>,
    <<"FENCE", " ", "Hi", "\n">>,
    <<"FENCE", "\n", "[", "]", "\n", "FENCE", "\n">> }

Suffixes ==
  { <<>>,
    <<"\n", "Bye">>,
    <<"\n", " ">>,
    <<"\n", "FENCE", "json", "\n", "{", "}", "\n", "FENCE">> }

Wraps == {"bare", "fence", "jsonfence"}

Wrap(w, body) ==
  IF w = "fence" THEN <<"FENCE", "\n">> \o body \o <<"\n", "FENCE">>
  ELSE IF w = "jsonfence" THEN <<"FENCE", "json", "\n">> \o body \o <<"\n", "FENCE">>
  ELSE body

Texts == {pre \o Wrap(w, body) \o post : pre \in Prefixes, w \in Wraps, body \in Docs, post \in Suffixes}

ChunkKinds ==
  {[web |-> FALSE, uri |-> "", title |-> ""]} \cup
  {[web |-> TRUE, uri |-> u, title |-> t] : u \in {"", "a", "b"}, t \in {"", "T1", "T2"}}

RECURSIVE SeqsUpTo(_, _)
SeqsUpTo(S, n) ==
  IF n = 0 THEN {<<>>}
  ELSE LET R == SeqsUpTo(S, n - 1) IN R \cup {Append(q, x) : q \in R, x \in S}

ImagePartSeqs ==
  { <<>>,
    <<[inline |-> TRUE, data |-> "img1"]>>,
    <<[inline |-> FALSE, data |-> ""], [inline |-> TRUE, data |-> "img2"]>>,
    <<[inline |-> FALSE, data |-> ""]>> }

CountryCodes == {"US", "PK"}

TextFns == {"findEvents", "getGlobalHotTopics", "generateContentIdeas",
            "generateTrendingIdeas", "generateKeywordStrategy", "generateStockMetadata"}

----------------------------------------------------------------------------
(* State of one service-function call *)

VARIABLES
  fn,           \* the service function called
  response,     \* the settled ai.models.generateContent call
  countryCode,  \* argument of findEvents
  data,         \* the local variable data of findEvents / getGlobalHotTopics
  result,       \* the promise returned by the service function
  settled       \* whether that promise has settled

svcVars == <<fn, response, countryCode, data, result, settled>>

(* State of the user interface *)

VARIABLES
  app,          \* the useState slots of App
  filterBar,    \* the useState slots of FilterBar (mounted in the events view)
  search,       \* the running handleSearch: its promises and where it stands
  trendExplorer,      \* the useState slots of TrendExplorer and its request
  marketPulse,        \* the useState slots of MarketPulse and its requests
  metadataGenerator,  \* the useState slots of MetadataGenerator and its request
  eventCard,    \* the EventCard of the first event on display
  ideaCard,     \* the first IdeaCard of the list on display
  issued        \* the service functions that called ai.models.generateContent
                \* in the latest turn of the event loop, in call order

appVars == <<app, filterBar, search>>

viewVars == <<trendExplorer, marketPulse, metadataGenerator, eventCard, ideaCard>>

uiVars == <<appVars, viewVars, issued>>

vars == <<svcVars, uiVars>>

Pending == [ok |-> FALSE, err |-> "", data |-> Undefined, events |-> <<>>, sources |-> <<>>]

----------------------------------------------------------------------------
(* App, FilterBar and handleSearch *)

\* null in a slot of type string | null
NULL == "<null>"

\* constants.ts, restricted to two countries, two months, two content types
COUNTRIES == [c \in {"US", "PK"} |-> IF c = "US" THEN "United States" ELSE "Pakistan"]
MONTHS == [m \in {1, 12} |-> IF m = 1 THEN "January" ELSE "December"]
CONTENT_TYPES == <<"Photo", "Vector">>

\* the template string of the search query; the empty string is <<>>
Query(monthName, countryName) == <<monthName, " in ", countryName>>

PendingPromise == [settled |-> FALSE, out |-> Pending]
Settled(o) == [settled |-> TRUE, out |-> o]

ImageCount == 4

InitApp ==
  [events |-> <<>>, sources |-> <<>>, inspirationImages |-> <<>>, searchQuery |-> <<>>,
   isSearchingEvents |-> FALSE, isGeneratingGallery |-> FALSE, hasSearched |-> FALSE,
   contentType |-> CONTENT_TYPES[1], error |-> NULL, galleryError |-> NULL,
   currentView |-> "events"]

\* month starts at the current month, here January; the year is not modelled
InitFilterBar == [country |-> "US", month |-> 1, type |-> CONTENT_TYPES[1]]

InitSearch ==
  [pc |-> "idle", countryCode |-> "US", eventsPromise |-> PendingPromise,
   imagePromises |-> [i \in 1..ImageCount |-> PendingPromise]]

\* args: the arguments of the latest generateTrendingIdeas call
InitTrendExplorer ==
  [theme |-> "", contentType |-> CONTENT_TYPES[1], aiReport |-> Undefined,
   isLoading |-> FALSE, error |-> NULL, hasSearched |-> FALSE, pending |-> FALSE,
   args |-> <<>>]

\* isTopicsLoading starts true; the mount effect issues the hot-topics call
InitMarketPulse ==
  [hotTopics |-> <<>>, isTopicsLoading |-> TRUE, topicsError |-> NULL,
   topic |-> "", keywordStrategy |-> Undefined, isKeywordsLoading |-> FALSE,
   keywordsError |-> NULL, topicsPending |-> FALSE, keywordsPending |-> FALSE]

\* reads: the files whose FileReader has not finished, in start order;
\* fileInput: the file held by the hidden file input;
\* args: the arguments of the latest generateStockMetadata call
InitMetadataGenerator ==
  [topic |-> "", contentType |-> CONTENT_TYPES[1], metadata |-> Undefined,
   isLoading |-> FALSE, error |-> NULL, hasSearched |-> FALSE,
   imageFile |-> NULL, imageBase64 |-> NULL, pending |-> FALSE,
   reads |-> <<>>, fileInput |-> NULL, args |-> <<>>]

InitEventCard ==
  [aiContent |-> Undefined, isLoading |-> FALSE, error |-> NULL, isOpen |-> FALSE,
   pending |-> FALSE]

InitIdeaCard ==
  [isGeneratingImage |-> FALSE, generatedImage |-> NULL, imageError |-> NULL,
   pending |-> FALSE]

InitUI ==
  /\ app = InitApp
  /\ filterBar = InitFilterBar
  /\ search = InitSearch
  /\ trendExplorer = InitTrendExplorer
  /\ marketPulse = InitMarketPulse
  /\ metadataGenerator = InitMetadataGenerator
  /\ eventCard = InitEventCard
  /\ ideaCard = InitIdeaCard
  /\ issued = <<>>

\* (mutation) the images that succeeded are returned once all have settled
generateInspirationGalleryPartial(imagePromises) ==
  LET IsOk(q) == q.out.ok
      oks == SelectSeq(imagePromises, IsOk) IN
  IF \A i \in 1..Len(imagePromises) : imagePromises[i].settled
  THEN Settled(Resolve([i \in 1..Len(oks) |-> oks[i].out.data[1]], <<>>, <<>>))
  ELSE PendingPromise

\* (mutation) the images are returned in the reverse of the issue order
generateInspirationGalleryReversed(imagePromises) ==
  IF \E i \in 1..Len(imagePromises) : imagePromises[i].settled /\ ~imagePromises[i].out.ok
  THEN Settled(Reject(GALLERY_FAIL_MSG))
  ELSE IF \A i \in 1..Len(imagePromises) : imagePromises[i].settled
  THEN Settled(Resolve([i \in 1..Len(imagePromises) |->
                          imagePromises[Len(imagePromises) + 1 - i].out.data[1]], <<>>, <<>>))
  ELSE PendingPromise

\* the arguments of the image calls of generateInspirationGallery:
\* Array(4).fill(null).map(() => generateInspirationalImage(query, contentType))
GalleryCalls(query, contentType) ==
  [i \in 1..ImageCount |-> [prompt |-> query, contentType |-> contentType]]

\* generateInspirationGallery: Promise.all over the image promises, in issue
\* order; rejected as soon as one of them is rejected
generateInspirationGallery(imagePromises) ==
  IF \E i \in 1..Len(imagePromises) : imagePromises[i].settled /\ ~imagePromises[i].out.ok
  THEN Settled(Reject(GALLERY_FAIL_MSG))
  ELSE IF \A i \in 1..Len(imagePromises) : imagePromises[i].settled
  THEN Settled(Resolve([i \in 1..Len(imagePromises) |-> imagePromises[i].out.data[1]], <<>>, <<>>))
  ELSE PendingPromise

\* (mutation) Promise.all instead of Promise.allSettled: one failure hides
\* the other request's result
HandleSearchResumeAll(a, eventsResult, galleryResult) ==
  IF eventsResult.ok /\ galleryResult.ok
  THEN [a EXCEPT !.events = eventsResult.events, !.sources = eventsResult.sources,
                 !.inspirationImages = galleryResult.data,
                 !.isSearchingEvents = FALSE, !.isGeneratingGallery = FALSE]
  ELSE [a EXCEPT !.error = IF eventsResult.ok THEN galleryResult.err ELSE eventsResult.err,
                 !.isSearchingEvents = FALSE, !.isGeneratingGallery = FALSE]

\* (mutation) completing the search also brings the events view back
HandleSearchResumeToEvents(a, eventsResult, galleryResult) ==
  [a EXCEPT
     !.events = IF eventsResult.ok THEN eventsResult.events ELSE @,
     !.sources = IF eventsResult.ok THEN eventsResult.sources ELSE @,
     !.error = IF eventsResult.ok THEN @ ELSE eventsResult.err,
     !.isSearchingEvents = FALSE,
     !.inspirationImages = IF galleryResult.ok THEN galleryResult.data ELSE @,
     !.galleryError = IF galleryResult.ok THEN @ ELSE galleryResult.err,
     !.isGeneratingGallery = FALSE,
     !.currentView = "events"]

\* (mutation) isGeneratingGallery is cleared only when the gallery succeeded
HandleSearchResumeGalleryFlag(a, eventsResult, galleryResult) ==
  [a EXCEPT
     !.events = IF eventsResult.ok THEN eventsResult.events ELSE @,
     !.sources = IF eventsResult.ok THEN eventsResult.sources ELSE @,
     !.error = IF eventsResult.ok THEN @ ELSE eventsResult.err,
     !.isSearchingEvents = FALSE,
     !.inspirationImages = IF galleryResult.ok THEN galleryResult.data ELSE @,
     !.galleryError = IF galleryResult.ok THEN @ ELSE galleryResult.err,
     !.isGeneratingGallery = IF galleryResult.ok THEN FALSE ELSE @]

\* (mutation) a failure of the gallery is stored in error
HandleSearchResumeOneError(a, eventsResult, galleryResult) ==
  [a EXCEPT
     !.events = IF eventsResult.ok THEN eventsResult.events ELSE @,
     !.sources = IF eventsResult.ok THEN eventsResult.sources ELSE @,
     !.error = IF ~eventsResult.ok THEN eventsResult.err
               ELSE IF ~galleryResult.ok THEN galleryResult.err ELSE @,
     !.isSearchingEvents = FALSE,
     !.inspirationImages = IF galleryResult.ok THEN galleryResult.data ELSE @,
     !.isGeneratingGallery = FALSE]

\* handleSearch after its await of Promise.allSettled
HandleSearchResume(a, eventsResult, galleryResult) ==
  [a EXCEPT
     !.events = IF eventsResult.ok THEN eventsResult.events ELSE @,
     !.sources = IF eventsResult.ok THEN eventsResult.sources ELSE @,
     !.error = IF eventsResult.ok THEN @ ELSE eventsResult.err,
     !.isSearchingEvents = FALSE,
     !.inspirationImages = IF galleryResult.ok THEN galleryResult.data ELSE @,
     !.galleryError = IF galleryResult.ok THEN @ ELSE galleryResult.err,
     !.isGeneratingGallery = FALSE]

\* Promise.allSettled([eventsPromise, galleryPromise]) and the continuation
\* of handleSearch, which runs in the turn in which the later one settles
AfterSettle(s) ==
  LET galleryPromise == generateInspirationGallery(s.imagePromises) IN
  IF s.eventsPromise.settled /\ galleryPromise.settled
  THEN /\ app' = HandleSearchResume(app, s.eventsPromise.out, galleryPromise.out)
       /\ search' = [s EXCEPT !.pc = "idle"]
  ELSE /\ app' = app
       /\ search' = s

InitService ==
  /\ fn \in TextFns \cup {"generateInspirationalImage"}
  /\ countryCode \in CountryCodes
  /\ response \in
       IF fn = "generateInspirationalImage"
       THEN {ImageResponse(ps) : ps \in ImagePartSeqs} \cup {FailedResponse(m) : m \in OracleErrors}
       ELSE {TextResponse(t, <<>>) : t \in Texts}
            \cup {FailedResponse(m) : m \in OracleErrors}
            \cup (IF fn = "findEvents"
                  THEN {TextResponse(<<"{", "events:", "[", "]", "}">>, cs) :
                          cs \in SeqsUpTo(ChunkKinds, MaxChunks)}
                  ELSE {})
  /\ (fn # "findEvents" => countryCode = "US")
  /\ data = Undefined
  /\ result = Pending
  /\ settled = FALSE
  /\ InitUI

\* the value of the local variable data once the function has run
DataOf(resp, innerMsg) ==
  IF resp.ok THEN ExtractData(Trim(resp.text), innerMsg).data ELSE Undefined

FindEvents ==
  /\ fn = "findEvents" /\ ~settled
  /\ result' = findEvents(response, countryCode)
  /\ data' = DataOf(response, PARSE_MSG)
  /\ settled' = TRUE
  /\ UNCHANGED <<fn, response, countryCode, uiVars>>

GetGlobalHotTopics ==
  /\ fn = "getGlobalHotTopics" /\ ~settled
  /\ result' = getGlobalHotTopics(response)
  /\ data' = DataOf(response, HOT_JSON_MSG)
  /\ settled' = TRUE
  /\ UNCHANGED <<fn, response, countryCode, uiVars>>

GenerateContentIdeas ==
  /\ fn = "generateContentIdeas" /\ ~settled
  /\ result' = generateContentIdeas(response)
  /\ settled' = TRUE
  /\ UNCHANGED <<fn, response, countryCode, data, uiVars>>

GenerateTrendingIdeas ==
  /\ fn = "generateTrendingIdeas" /\ ~settled
  /\ result' = generateTrendingIdeas(response)
  /\ settled' = TRUE
  /\ UNCHANGED <<fn, response, countryCode, data, uiVars>>

GenerateKeywordStrategy ==
  /\ fn = "generateKeywordStrategy" /\ ~settled
  /\ result' = generateKeywordStrategy(response)
  /\ settled' = TRUE
  /\ UNCHANGED <<fn, response, countryCode, data, uiVars>>

GenerateStockMetadata ==
  /\ fn = "generateStockMetadata" /\ ~settled
  /\ result' = generateStockMetadata(response)
  /\ settled' = TRUE
  /\ UNCHANGED <<fn, response, countryCode, data, uiVars>>

GenerateInspirationalImage ==
  /\ fn = "generateInspirationalImage" /\ ~settled
  /\ result' = generateInspirationalImage(response)
  /\ settled' = TRUE
  /\ UNCHANGED <<fn, response, countryCode, data, uiVars>>

NextService ==
  \/ FindEvents
  \/ GetGlobalHotTopics
  \/ GenerateContentIdeas
  \/ GenerateTrendingIdeas
  \/ GenerateKeywordStrategy
  \/ GenerateStockMetadata
  \/ GenerateInspirationalImage

SpecService == InitService /\ [][NextService]_vars

----------------------------------------------------------------------------
(* Fences, stated position by position (independently of the matcher) *)

\* a fence opens at i and its closing newline is at j
IsFence(s, i, j) ==
  /\ i >= 1 /\ j + 1 <= Len(s)
  /\ s[i] = "FENCE"
  /\ \/ i + 1 <= Len(s) /\ s[i + 1] = "\n" /\ j >= i + 2
     \/ i + 2 <= Len(s) /\ s[i + 1] = "json" /\ s[i + 2] = "\n" /\ j >= i + 3
  /\ s[j] = "\n" /\ s[j + 1] = "FENCE"

Fences(s) == {f \in (1..Len(s)) \X (1..Len(s)) : IsFence(s, f[1], f[2])}

ContainsFence(s) == Fences(s) # {}

FirstFence(s) ==
  CHOOSE f \in Fences(s) : \A g \in Fences(s) : f[1] < g[1] \/ (f[1] = g[1] /\ f[2] <= g[2])

FirstInterior(s) ==
  LET f == FirstFence(s)
      b == IF s[f[1] + 1] = "json" THEN f[1] + 3 ELSE f[1] + 2 IN
  SubSeq(s, b, f[2] - 1)

FenceOnly(body) == <<"FENCE", "\n">> \o body \o <<"\n", "FENCE">>

FencedFns == {"findEvents", "getGlobalHotTopics"}

ResultOf(f, resp, cc) ==
  IF f = "findEvents" THEN findEvents(resp, cc)
  ELSE IF f = "getGlobalHotTopics" THEN getGlobalHotTopics(resp)
  ELSE IF f = "generateContentIdeas" THEN generateContentIdeas(resp)
  ELSE IF f = "generateTrendingIdeas" THEN generateTrendingIdeas(resp)
  ELSE IF f = "generateKeywordStrategy" THEN generateKeywordStrategy(resp)
  ELSE IF f = "generateStockMetadata" THEN generateStockMetadata(resp)
  ELSE generateInspirationalImage(resp)

\* C1: when the oracle text of findEvents or getGlobalHotTopics contains a
\* fence, the data used is the JSON parse of the interior of the first fence
\* (no data when that interior does not parse), and the promise settles as it
\* does for that fence alone, without the prose around it.
C1_FenceInteriorOnly ==
  (settled /\ fn \in FencedFns /\ response.ok /\ ContainsFence(response.text)) =>
    LET interior == FirstInterior(response.text)
        p == JSONParse(interior) IN
    /\ data = (IF p.ok THEN p.v ELSE Undefined)
    /\ (result.ok => p.ok /\ result.data = p.v)
    /\ result = ResultOf(fn, TextResponse(FenceOnly(interior), response.chunks), countryCode)

\* a fenced response with prose on both sides was parsed and resolved
C1_Witness ==
  /\ settled /\ fn = "findEvents" /\ response.ok /\ result.ok
  /\ ContainsFence(response.text)
  /\ response.text[1] = "Hi"
  /\ response.text[Len(response.text)] = "Bye"
  /\ Len(result.events) = 2

\* C2: when the oracle text of findEvents or getGlobalHotTopics contains no
\* fence and its trimmed form is valid JSON, the data used is the parse of the
\* whole trimmed text, and findEvents resolves with one event per element of
\* its events array.
C2_BareJSONParsedWhole ==
  (/\ settled /\ fn \in FencedFns /\ response.ok
   /\ ~ContainsFence(response.text)
   /\ IsValidJSON(Trim(response.text))) =>
    LET p == JSONParse(Trim(response.text)) IN
    /\ data = p.v
    /\ (result.ok => result.data = p.v)
    /\ (fn = "findEvents" /\ IsArray(Get(p.v, "events:")) =>
          result.ok /\ Len(result.events) = Len(Elements(Get(p.v, "events:"))))
    /\ (fn = "getGlobalHotTopics" /\ IsArray(p.v) => result.ok)

\* a bare JSON text padded with whitespace was parsed whole
C2_Witness ==
  /\ settled /\ fn = "findEvents" /\ response.ok /\ result.ok
  /\ ~ContainsFence(response.text)
  /\ Trim(response.text) # response.text
  /\ Len(result.events) = 2
  /\ result.data = <<"{", "events:", "[", "{", "name:", "\"s\"", ",", "country:", "\"t\"", "}",
                     ",", "{", "name:", "\"t\"", "}", "]", "}">>

\* the message a function uses for a response that could not be parsed, and
\* the one it uses when the oracle call itself failed
MalformedMsg(f) == IF f = "findEvents" THEN PARSE_MSG ELSE HOT_JSON_MSG
UnavailableMsg(f) == IF f = "findEvents" THEN FIND_MSG ELSE HOT_FAIL_MSG

\* C3: an oracle text that is neither fenced nor valid bare JSON makes
\* findEvents and getGlobalHotTopics reject with the malformed-response error,
\* which differs from the oracle-unavailable error.
C3_MalformedRejected ==
  (/\ settled /\ fn \in FencedFns /\ response.ok
   /\ ~ContainsFence(response.text)
   /\ ~IsValidJSON(Trim(response.text))) =>
    /\ ~result.ok
    /\ result.err = MalformedMsg(fn)
    /\ result.err # UnavailableMsg(fn)

\* the required top-level fields of each response
Required(f) ==
  IF f = "findEvents" THEN {"events:"}
  ELSE IF f = "generateContentIdeas" THEN {"ideas:", "uploadTip:"}
  ELSE IF f = "generateTrendingIdeas" THEN {"ideas:", "audienceTip:"}
  ELSE IF f = "generateKeywordStrategy"
       THEN {"primaryKeywords:", "longTailKeywords:", "relatedConcepts:"}
  ELSE IF f = "generateStockMetadata" THEN {"metadata:"}
  ELSE {}

\* the value the function parsed from the response (undefined if none)
ParsedOf(f, resp) ==
  IF ~resp.ok THEN Undefined
  ELSE IF f \in FencedFns THEN ExtractData(Trim(resp.text), "").data
  ELSE JSONParse(Trim(resp.text)).v

\* d is an object without one of the required fields
LacksRequired(f, d) ==
  d # Undefined /\ d[1] = "{" /\ \E k \in Required(f) : Get(d, k) = Undefined

\* C4: a response that parses as JSON but lacks a required top-level field
\* makes the operation reject; it never resolves with a default in place of
\* the missing field.
C4_MissingFieldRejected ==
  (settled /\ LacksRequired(fn, ParsedOf(fn, response))) => ~result.ok

\* the response parsed but does not have the required structure
BadStructure(f, d) ==
  IF f = "getGlobalHotTopics" THEN d # Undefined /\ ~IsArray(d) ELSE LacksRequired(f, d)

Unparsable == TextResponse(<<"Hi">>, <<>>)

\* C5: for every service function, the error of a rejection for a response
\* that parsed but lacks required fields differs from the error of a rejection
\* for a response that could not be parsed.
C5_StructureErrorDistinct ==
  (settled /\ fn \in TextFns /\ BadStructure(fn, ParsedOf(fn, response)) /\ ~result.ok) =>
    result.err # ResultOf(fn, Unparsable, countryCode).err

\* indices of the chunks that have a web entry with non-empty uri and title
\* and whose uri does not occur in such a chunk earlier
KeptChunks(cs) ==
  {i \in 1..Len(cs) :
     /\ cs[i].web /\ cs[i].uri # "" /\ cs[i].title # ""
     /\ \A j \in 1..(i - 1) :
          ~(cs[j].web /\ cs[j].uri # "" /\ cs[j].title # "" /\ cs[j].uri = cs[i].uri)}

\* C6: the sources of findEvents are the chunks with a web entry, non-empty
\* uri and non-empty title, reduced to the first occurrence of each uri, in
\* their original order; the returned uris are pairwise distinct.
C6_SourcesFirstOccurrence ==
  (settled /\ fn = "findEvents" /\ result.ok) =>
    LET cs == response.chunks
        K == KeptChunks(cs)
        Rank(i) == Cardinality({j \in K : j <= i}) IN
    /\ Len(result.sources) = Cardinality(K)
    /\ \A i \in K : result.sources[Rank(i)] = [uri |-> cs[i].uri, title |-> cs[i].title]
    /\ \A m, n \in 1..Len(result.sources) :
         m # n => result.sources[m].uri # result.sources[n].uri

\* the example of the specification: a duplicate uri and an empty uri dropped
C6_Witness ==
  /\ settled /\ fn = "findEvents" /\ result.ok
  /\ response.chunks = << [web |-> TRUE, uri |-> "a", title |-> "T1"],
                          [web |-> TRUE, uri |-> "a", title |-> "T2"],
                          [web |-> TRUE, uri |-> "b", title |-> "T1"],
                          [web |-> TRUE, uri |-> "", title |-> "T2"] >>
  /\ result.sources = << [uri |-> "a", title |-> "T1"], [uri |-> "b", title |-> "T1"] >>

----------------------------------------------------------------------------
(* The user interface as a state machine *)

INVALID_SELECTION_MSG == "Invalid country or month selected."

Views == {"events", "trends", "market", "metadata"}

ContentTypes == {CONTENT_TYPES[i] : i \in 1..Len(CONTENT_TYPES)}

FencedTwoEvents ==
  <<"Hi", "\n", "FENCE", "json", "\n",
    "{", "events:", "[", "{", "name:", "\"s\"", ",", "country:", "\"t\"", "}", ",",
                         "{", "name:", "\"t\"", "}", "]", "}",
    "\n", "FENCE">>

ThreeChunks ==
  << [web |-> TRUE, uri |-> "a", title |-> "T1"],
     [web |-> TRUE, uri |-> "a", title |-> "T2"],
     [web |-> TRUE, uri |-> "b", title |-> "T1"] >>

NetworkFailure == FailedResponse("Network request failed")

\* what the oracle may answer to the findEvents call of a search
EventsResponses ==
  { TextResponse(FencedTwoEvents, ThreeChunks),
    TextResponse(<<"{", "}">>, <<>>),
    TextResponse(<<"Hi">>, <<>>),
    NetworkFailure }

OneImage == ImageResponse(<<[inline |-> TRUE, data |-> "img1"]>>)

\* what the oracle may answer to an image call
ImageResponses ==
  { OneImage,
    ImageResponse(<<[inline |-> TRUE, data |-> "img2"]>>),
    ImageResponse(<<>>),
    NetworkFailure }

\* EventGrid renders the cards when the search is over and found events
CardsShown(a) ==
  a.currentView = "events" /\ ~a.isSearchingEvents /\ a.hasSearched /\ a.events # <<>>

\* FilterBar: the selects
SetCountry(c) ==
  /\ app.currentView = "events"
  /\ c # filterBar.country
  /\ filterBar' = [filterBar EXCEPT !.country = c]
  /\ issued' = <<>>
  /\ UNCHANGED <<app, search, viewVars, svcVars>>

SetMonth(m) ==
  /\ app.currentView = "events"
  /\ m # filterBar.month
  /\ filterBar' = [filterBar EXCEPT !.month = m]
  /\ issued' = <<>>
  /\ UNCHANGED <<app, search, viewVars, svcVars>>

SetType(t) ==
  /\ app.currentView = "events"
  /\ t # filterBar.type
  /\ filterBar' = [filterBar EXCEPT !.type = t]
  /\ issued' = <<>>
  /\ UNCHANGED <<app, search, viewVars, svcVars>>

\* App: a tab button.  Only the current view is mounted: the state of the
\* view left behind is discarded (a response to a request of an unmounted
\* component writes nothing), the view entered starts from its initial
\* state, and the mount effect of MarketPulse calls getGlobalHotTopics.
SetCurrentView(v) ==
  /\ v # app.currentView
  /\ app' = [app EXCEPT !.currentView = v]
  /\ filterBar' = InitFilterBar
  /\ trendExplorer' = InitTrendExplorer
  /\ metadataGenerator' = InitMetadataGenerator
  /\ eventCard' = InitEventCard
  /\ ideaCard' = InitIdeaCard
  /\ marketPulse' = IF v = "market"
                    THEN [InitMarketPulse EXCEPT !.topicsPending = TRUE]
                    ELSE InitMarketPulse
  /\ issued' = IF v = "market" THEN <<"getGlobalHotTopics">> ELSE <<>>
  /\ UNCHANGED <<search, svcVars>>

\* (mutation) the results of the previous search are not reset
HandleSearchNoReset(filters) ==
  LET a1 == [app EXCEPT !.hasSearched = TRUE, !.error = NULL, !.galleryError = NULL,
                        !.contentType = filters.type,
                        !.isSearchingEvents = TRUE, !.isGeneratingGallery = TRUE]
      valid == filters.country \in DOMAIN COUNTRIES /\ filters.month \in DOMAIN MONTHS IN
  IF ~valid
  THEN /\ app' = [a1 EXCEPT !.error = INVALID_SELECTION_MSG,
                            !.isSearchingEvents = FALSE, !.isGeneratingGallery = FALSE]
       /\ search' = InitSearch
       /\ issued' = <<>>
  ELSE /\ app' = [a1 EXCEPT !.searchQuery =
                              Query(MONTHS[filters.month], COUNTRIES[filters.country])]
       /\ search' = [pc |-> "await", countryCode |-> filters.country,
                     eventsPromise |-> PendingPromise,
                     imagePromises |-> [i \in 1..ImageCount |-> PendingPromise]]
       /\ issued' = <<"findEvents">> \o [i \in 1..ImageCount |-> "generateInspirationalImage"]

\* (mutation) the invalid-selection return leaves the loading flags set
HandleSearchInvalidStuck(filters) ==
  LET a1 == [app EXCEPT !.hasSearched = TRUE, !.events = <<>>, !.sources = <<>>,
                        !.inspirationImages = <<>>, !.error = NULL, !.galleryError = NULL,
                        !.contentType = filters.type,
                        !.isSearchingEvents = TRUE, !.isGeneratingGallery = TRUE]
      valid == filters.country \in DOMAIN COUNTRIES /\ filters.month \in DOMAIN MONTHS IN
  IF ~valid
  THEN /\ app' = [a1 EXCEPT !.error = INVALID_SELECTION_MSG]
       /\ search' = InitSearch
       /\ issued' = <<>>
  ELSE /\ app' = [a1 EXCEPT !.searchQuery =
                              Query(MONTHS[filters.month], COUNTRIES[filters.country])]
       /\ search' = [pc |-> "await", countryCode |-> filters.country,
                     eventsPromise |-> PendingPromise,
                     imagePromises |-> [i \in 1..ImageCount |-> PendingPromise]]
       /\ issued' = <<"findEvents">> \o [i \in 1..ImageCount |-> "generateInspirationalImage"]

\* App.handleSearch up to its await
HandleSearch(filters) ==
  LET a1 == [app EXCEPT !.hasSearched = TRUE, !.events = <<>>, !.sources = <<>>,
                        !.inspirationImages = <<>>, !.error = NULL, !.galleryError = NULL,
                        !.contentType = filters.type,
                        !.isSearchingEvents = TRUE, !.isGeneratingGallery = TRUE]
      valid == filters.country \in DOMAIN COUNTRIES /\ filters.month \in DOMAIN MONTHS IN
  IF ~valid
  THEN /\ app' = [a1 EXCEPT !.error = INVALID_SELECTION_MSG,
                            !.isSearchingEvents = FALSE, !.isGeneratingGallery = FALSE]
       /\ search' = InitSearch
       /\ issued' = <<>>
  ELSE /\ app' = [a1 EXCEPT !.searchQuery =
                              Query(MONTHS[filters.month], COUNTRIES[filters.country])]
       /\ search' = [pc |-> "await", countryCode |-> filters.country,
                     eventsPromise |-> PendingPromise,
                     imagePromises |-> [i \in 1..ImageCount |-> PendingPromise]]
       /\ issued' = <<"findEvents">> \o [i \in 1..ImageCount |-> "generateInspirationalImage"]

\* FilterBar.handleSubmit; the submit button is disabled while isLoading.
\* EventGrid shows the spinner during the search, so the cards unmount.
HandleSubmit ==
  /\ app.currentView = "events"
  /\ ~(app.isSearchingEvents \/ app.isGeneratingGallery)
  /\ HandleSearch([country |-> filterBar.country, month |-> filterBar.month,
                   type |-> filterBar.type])
  /\ eventCard' = InitEventCard
  /\ ideaCard' = InitIdeaCard
  /\ UNCHANGED <<filterBar, trendExplorer, marketPulse, metadataGenerator, svcVars>>

\* the oracle answers the findEvents call of the running search
FindEventsSettles(resp) ==
  /\ search.pc = "await"
  /\ ~search.eventsPromise.settled
  /\ AfterSettle([search EXCEPT
                    !.eventsPromise = Settled(findEvents(resp, search.countryCode))])
  /\ issued' = <<>>
  /\ UNCHANGED <<filterBar, viewVars, svcVars>>

\* the oracle answers the i-th image call of the running search
ImageSettles(i, resp) ==
  /\ search.pc = "await"
  /\ ~search.imagePromises[i].settled
  /\ AfterSettle([search EXCEPT
                    !.imagePromises[i] = Settled(generateInspirationalImage(resp))])
  /\ issued' = <<>>
  /\ UNCHANGED <<filterBar, viewVars, svcVars>>

----------------------------------------------------------------------------
(* TrendExplorer *)

THEME_MSG == "Please enter a theme to explore."
TOPIC_MSG == "Please enter a topic."
TOPIC_OR_IMAGE_MSG == "Please enter a topic or upload an image to generate metadata."

\* what the user may type into a text input
Inputs == {"", "x"}

\* two of the six suggestion buttons
Suggestions == {"AI & Technology", "Retro Futurism"}

TrendResponses ==
  { TextResponse(<<"{", "ideas:", "[", "{", "name:", "\"s\"", "}", "]", ",",
                   "audienceTip:", "\"s\"", "}">>, <<>>),
    TextResponse(<<"{", "ideas:", "[", "]", "}">>, <<>>),
    NetworkFailure }

ContentResponses ==
  { TextResponse(<<"{", "ideas:", "[", "{", "name:", "\"s\"", "}", "]", ",",
                   "uploadTip:", "\"s\"", "}">>, <<>>),
    TextResponse(<<"Hi">>, <<>>),
    NetworkFailure }

HotTopicsResponses ==
  { TextResponse(<<"FENCE", "\n", "[", "{", "name:", "\"s\"", "}", "]", "\n", "FENCE">>, <<>>),
    TextResponse(<<"Hi">>, <<>>),
    NetworkFailure }

KeywordResponses ==
  { TextResponse(<<"{", "primaryKeywords:", "[", "\"s\"", "]", ",",
                   "longTailKeywords:", "[", "\"t\"", "]", ",",
                   "relatedConcepts:", "[", "\"s\"", "]", "}">>, <<>>),
    NetworkFailure }

MetadataResponses ==
  { TextResponse(<<"{", "metadata:", "[", "{", "name:", "\"s\"", "}", "]", "}">>, <<>>),
    TextResponse(<<"{", "}">>, <<>>),
    NetworkFailure }

SetTheme(t) ==
  /\ app.currentView = "trends"
  /\ t # trendExplorer.theme
  /\ trendExplorer' = [trendExplorer EXCEPT !.theme = t]
  /\ issued' = <<>>
  /\ UNCHANGED <<appVars, marketPulse, metadataGenerator, eventCard, ideaCard, svcVars>>

SetTrendContentType(t) ==
  /\ app.currentView = "trends"
  /\ t # trendExplorer.contentType
  /\ trendExplorer' = [trendExplorer EXCEPT !.contentType = t]
  /\ issued' = <<>>
  /\ UNCHANGED <<appVars, marketPulse, metadataGenerator, eventCard, ideaCard, svcVars>>

\* (mutation) the validation failure also clears the report
PerformTrendSearchClearing(te, currentTheme) ==
  /\ IF currentTheme = ""
     THEN /\ trendExplorer' = [te EXCEPT !.error = THEME_MSG, !.aiReport = Undefined,
                                         !.hasSearched = TRUE]
          /\ issued' = <<>>
          /\ UNCHANGED ideaCard
     ELSE /\ trendExplorer' = [te EXCEPT !.isLoading = TRUE, !.error = NULL,
                                         !.aiReport = Undefined, !.hasSearched = TRUE,
                                         !.pending = TRUE,
                                         !.args = <<currentTheme, te.contentType>>]
          /\ issued' = <<"generateTrendingIdeas">>
          /\ ideaCard' = InitIdeaCard
  /\ UNCHANGED <<appVars, marketPulse, metadataGenerator, eventCard, svcVars>>

\* performTrendSearch up to its await, on the TrendExplorer state te
PerformTrendSearch(te, currentTheme) ==
  /\ IF currentTheme = ""
     THEN /\ trendExplorer' = [te EXCEPT !.error = THEME_MSG]
          /\ issued' = <<>>
          /\ UNCHANGED ideaCard
     ELSE /\ trendExplorer' = [te EXCEPT !.isLoading = TRUE, !.error = NULL,
                                         !.aiReport = Undefined, !.hasSearched = TRUE,
                                         !.pending = TRUE,
                                         !.args = <<currentTheme, te.contentType>>]
          /\ issued' = <<"generateTrendingIdeas">>
          /\ ideaCard' = InitIdeaCard
  /\ UNCHANGED <<appVars, marketPulse, metadataGenerator, eventCard, svcVars>>

\* the heading of the report: Trending Concepts for "{theme}"
ReportHeading(te) == te.theme

\* the contentType prop of the idea cards of the report, which
\* handleGenerateImage passes to generateInspirationalImage
IdeaCardContentType(te) == te.contentType

\* (mutation) the submit button is not disabled while isLoading
HandleGenerateTrendsUnguarded ==
  /\ app.currentView = "trends"
  /\ PerformTrendSearch(trendExplorer, trendExplorer.theme)

\* the form's submit button is disabled while isLoading
HandleGenerateTrends ==
  /\ app.currentView = "trends"
  /\ ~trendExplorer.isLoading
  /\ PerformTrendSearch(trendExplorer, trendExplorer.theme)

\* the suggestion buttons are rendered while !isLoading && !aiReport && !hasSearched
HandleSuggestionClick(suggestion) ==
  /\ app.currentView = "trends"
  /\ ~trendExplorer.isLoading
  /\ trendExplorer.aiReport = Undefined
  /\ ~trendExplorer.hasSearched
  /\ PerformTrendSearch([trendExplorer EXCEPT !.theme = suggestion], suggestion)

\* (mutation) a failed request is issued again instead of being reported
TrendSettlesRetry(resp) ==
  /\ trendExplorer.pending
  /\ \E out \in {generateTrendingIdeas(resp)} :
       /\ trendExplorer' = IF out.ok
                           THEN [trendExplorer EXCEPT !.aiReport = out.data,
                                                      !.isLoading = FALSE,
                                                      !.pending = FALSE]
                           ELSE trendExplorer
       /\ issued' = IF out.ok THEN <<>> ELSE <<"generateTrendingIdeas">>
  /\ UNCHANGED <<appVars, marketPulse, metadataGenerator, eventCard, ideaCard, svcVars>>

\* performTrendSearch after its await: try / catch / finally
TrendSettles(resp) ==
  /\ trendExplorer.pending
  /\ \E out \in {generateTrendingIdeas(resp)} :
       trendExplorer' = [trendExplorer EXCEPT
                         !.aiReport = IF out.ok THEN out.data ELSE @,
                         !.error = IF out.ok THEN @ ELSE out.err,
                         !.isLoading = FALSE,
                         !.pending = FALSE]
  /\ issued' = <<>>
  /\ UNCHANGED <<appVars, marketPulse, metadataGenerator, eventCard, ideaCard, svcVars>>

----------------------------------------------------------------------------
(* MarketPulse *)

\* fetchHotTopics after its await
HotTopicsSettles(resp) ==
  /\ marketPulse.topicsPending
  /\ \E out \in {getGlobalHotTopics(resp)} :
       marketPulse' = [marketPulse EXCEPT
                       !.hotTopics = IF out.ok THEN Elements(out.data) ELSE @,
                       !.topicsError = IF out.ok THEN @ ELSE out.err,
                       !.isTopicsLoading = FALSE,
                       !.topicsPending = FALSE]
  /\ issued' = <<>>
  /\ UNCHANGED <<appVars, trendExplorer, metadataGenerator, eventCard, ideaCard, svcVars>>

SetTopic(t) ==
  /\ app.currentView = "market"
  /\ t # marketPulse.topic
  /\ marketPulse' = [marketPulse EXCEPT !.topic = t]
  /\ issued' = <<>>
  /\ UNCHANGED <<appVars, trendExplorer, metadataGenerator, eventCard, ideaCard, svcVars>>

\* (mutation) the keyword submit stays enabled while isKeywordsLoading
HandleStrategySubmitEnabled ==
  /\ app.currentView = "market"
  /\ IF marketPulse.topic = ""
     THEN /\ marketPulse' = [marketPulse EXCEPT !.keywordsError = TOPIC_MSG]
          /\ issued' = <<>>
     ELSE /\ marketPulse' = [marketPulse EXCEPT !.isKeywordsLoading = TRUE,
                                                !.keywordsError = NULL,
                                                !.keywordStrategy = Undefined,
                                                !.keywordsPending = TRUE]
          /\ issued' = <<"generateKeywordStrategy">>
  /\ UNCHANGED <<appVars, trendExplorer, metadataGenerator, eventCard, ideaCard, svcVars>>

\* handleStrategySubmit up to its await; the button is disabled while
\* isKeywordsLoading
HandleStrategySubmit ==
  /\ app.currentView = "market"
  /\ ~marketPulse.isKeywordsLoading
  /\ IF marketPulse.topic = ""
     THEN /\ marketPulse' = [marketPulse EXCEPT !.keywordsError = TOPIC_MSG]
          /\ issued' = <<>>
     ELSE /\ marketPulse' = [marketPulse EXCEPT !.isKeywordsLoading = TRUE,
                                                !.keywordsError = NULL,
                                                !.keywordStrategy = Undefined,
                                                !.keywordsPending = TRUE]
          /\ issued' = <<"generateKeywordStrategy">>
  /\ UNCHANGED <<appVars, trendExplorer, metadataGenerator, eventCard, ideaCard, svcVars>>

\* handleStrategySubmit after its await
KeywordsSettles(resp) ==
  /\ marketPulse.keywordsPending
  /\ \E out \in {generateKeywordStrategy(resp)} :
       marketPulse' = [marketPulse EXCEPT
                       !.keywordStrategy = IF out.ok THEN out.data ELSE @,
                       !.keywordsError = IF out.ok THEN @ ELSE out.err,
                       !.isKeywordsLoading = FALSE,
                       !.keywordsPending = FALSE]
  /\ issued' = <<>>
  /\ UNCHANGED <<appVars, trendExplorer, metadataGenerator, eventCard, ideaCard, svcVars>>

----------------------------------------------------------------------------
(* MetadataGenerator *)

SetMetadataTopic(t) ==
  /\ app.currentView = "metadata"
  /\ t # metadataGenerator.topic
  /\ metadataGenerator' = [metadataGenerator EXCEPT !.topic = t]
  /\ issued' = <<>>
  /\ UNCHANGED <<appVars, trendExplorer, marketPulse, eventCard, ideaCard, svcVars>>

\* the files the user may choose: one of exactly 4 MB, a small one, and one
\* of one byte more than 4 MB
Files == {"a.png", "b.jpg", "c.webp"}

FileSize ==
  [f \in Files |-> IF f = "a.png" THEN 4194304 ELSE IF f = "b.jpg" THEN 1 ELSE 4194305]

FileType ==
  [f \in Files |-> IF f = "a.png" THEN "image/png"
                   ELSE IF f = "b.jpg" THEN "image/jpeg" ELSE "image/webp"]

\* 4 * 1024 * 1024
MaxImageSize == 4 * 1024 * 1024

SIZE_MSG == "Image size must be less than 4MB."
READ_MSG == "Failed to read the image file."

\* the file reads that may be running at once
MaxReads == 2

\* fileToBase64: the payload of the data URL of the file's content
fileToBase64(file) == "base64(" \o file \o ")"

\* the preview with its remove button replaces the upload area
PreviewShown(mg) == mg.imageBase64 # NULL /\ mg.imageFile # NULL

\* imageBase64 && imageFile ? {data: imageBase64, mimeType: imageFile.type} : undefined
ImageData(mg) ==
  IF mg.imageBase64 # NULL /\ mg.imageFile # NULL
  THEN <<mg.imageBase64, FileType[mg.imageFile]>>
  ELSE Undefined

\* generateStockMetadata(topic, contentType, imageData)
StockMetadataArgs(mg) == <<mg.topic, mg.contentType, ImageData(mg)>>

RemoveAt(q, i) == [j \in 1..(Len(q) - 1) |-> IF j < i THEN q[j] ELSE q[j + 1]]

\* (mutation) a file of exactly 4 MB is rejected too
HandleImageChangeInclusive(file) ==
  /\ app.currentView = "metadata"
  /\ ~PreviewShown(metadataGenerator)
  /\ file # metadataGenerator.fileInput
  /\ FileSize[file] >= MaxImageSize \/ Len(metadataGenerator.reads) < MaxReads
  /\ IF FileSize[file] >= MaxImageSize
     THEN metadataGenerator' = [metadataGenerator EXCEPT !.error = SIZE_MSG,
                                                         !.fileInput = file]
     ELSE metadataGenerator' = [metadataGenerator EXCEPT !.imageFile = file,
                                                         !.error = NULL,
                                                         !.fileInput = file,
                                                         !.reads = Append(@, file)]
  /\ issued' = <<>>
  /\ UNCHANGED <<appVars, trendExplorer, marketPulse, eventCard, ideaCard, svcVars>>

\* handleImageChange up to its await: the user picks a file in the dialog
\* opened from the upload area.  The change event fires when the file differs
\* from the one the input holds.
HandleImageChange(file) ==
  /\ app.currentView = "metadata"
  /\ ~PreviewShown(metadataGenerator)
  /\ file # metadataGenerator.fileInput
  /\ FileSize[file] > MaxImageSize \/ Len(metadataGenerator.reads) < MaxReads
  /\ IF FileSize[file] > MaxImageSize
     THEN metadataGenerator' = [metadataGenerator EXCEPT !.error = SIZE_MSG,
                                                         !.fileInput = file]
     ELSE metadataGenerator' = [metadataGenerator EXCEPT !.imageFile = file,
                                                         !.error = NULL,
                                                         !.fileInput = file,
                                                         !.reads = Append(@, file)]
  /\ issued' = <<>>
  /\ UNCHANGED <<appVars, trendExplorer, marketPulse, eventCard, ideaCard, svcVars>>

\* handleImageChange after its await: the i-th running FileReader finishes,
\* with onload or with onerror
FileReadSettles(i, loaded) ==
  /\ i \in 1..Len(metadataGenerator.reads)
  /\ metadataGenerator' =
       IF loaded
       THEN [metadataGenerator EXCEPT
               !.imageBase64 = fileToBase64(metadataGenerator.reads[i]),
               !.reads = RemoveAt(@, i)]
       ELSE [metadataGenerator EXCEPT !.error = READ_MSG,
                                      !.imageFile = NULL,
                                      !.imageBase64 = NULL,
                                      !.reads = RemoveAt(@, i)]
  /\ issued' = <<>>
  /\ UNCHANGED <<appVars, trendExplorer, marketPulse, eventCard, ideaCard, svcVars>>

\* handleRemoveImage: the button on the preview
HandleRemoveImage ==
  /\ app.currentView = "metadata"
  /\ PreviewShown(metadataGenerator)
  /\ metadataGenerator' = [metadataGenerator EXCEPT !.imageFile = NULL,
                                                     !.imageBase64 = NULL,
                                                     !.fileInput = NULL]
  /\ issued' = <<>>
  /\ UNCHANGED <<appVars, trendExplorer, marketPulse, eventCard, ideaCard, svcVars>>

\* (mutation) the request is issued without raising isLoading
MetadataHandleSubmitNoLoading ==
  /\ app.currentView = "metadata"
  /\ ~metadataGenerator.isLoading
  /\ IF metadataGenerator.topic = "" /\ metadataGenerator.imageFile = NULL
     THEN /\ metadataGenerator' = [metadataGenerator EXCEPT !.error = TOPIC_OR_IMAGE_MSG]
          /\ issued' = <<>>
     ELSE /\ metadataGenerator' = [metadataGenerator EXCEPT !.error = NULL,
                                                            !.metadata = Undefined,
                                                            !.hasSearched = TRUE,
                                                            !.pending = TRUE,
                                                            !.args = StockMetadataArgs(metadataGenerator)]
          /\ issued' = <<"generateStockMetadata">>
  /\ UNCHANGED <<appVars, trendExplorer, marketPulse, eventCard, ideaCard, svcVars>>

\* handleSubmit up to its await; the button is disabled while isLoading
MetadataHandleSubmit ==
  /\ app.currentView = "metadata"
  /\ ~metadataGenerator.isLoading
  /\ IF metadataGenerator.topic = "" /\ metadataGenerator.imageFile = NULL
     THEN /\ metadataGenerator' = [metadataGenerator EXCEPT !.error = TOPIC_OR_IMAGE_MSG]
          /\ issued' = <<>>
     ELSE /\ metadataGenerator' = [metadataGenerator EXCEPT !.isLoading = TRUE,
                                                            !.error = NULL,
                                                            !.metadata = Undefined,
                                                            !.hasSearched = TRUE,
                                                            !.pending = TRUE,
                                                            !.args = StockMetadataArgs(metadataGenerator)]
          /\ issued' = <<"generateStockMetadata">>
  /\ UNCHANGED <<appVars, trendExplorer, marketPulse, eventCard, ideaCard, svcVars>>

\* handleSubmit after its await
MetadataSettles(resp) ==
  /\ metadataGenerator.pending
  /\ \E out \in {generateStockMetadata(resp)} :
       metadataGenerator' = [metadataGenerator EXCEPT
                             !.metadata = IF out.ok THEN out.data ELSE @,
                             !.error = IF out.ok THEN @ ELSE out.err,
                             !.isLoading = FALSE,
                             !.pending = FALSE]
  /\ issued' = <<>>
  /\ UNCHANGED <<appVars, trendExplorer, marketPulse, eventCard, ideaCard, svcVars>>

----------------------------------------------------------------------------
(* EventCard and IdeaCard *)

\* (mutation) every click requests the ideas again
HandleGenerateIdeasAgain ==
  /\ CardsShown(app)
  /\ ~eventCard.isLoading
  /\ eventCard' = [eventCard EXCEPT !.isLoading = TRUE, !.error = NULL,
                                    !.isOpen = TRUE, !.pending = TRUE]
  /\ issued' = <<"generateContentIdeas">>
  /\ ideaCard' = InitIdeaCard
  /\ UNCHANGED <<appVars, trendExplorer, marketPulse, metadataGenerator, svcVars>>

\* handleGenerateIdeas up to its await; the button is disabled while isLoading.
\* The idea cards are rendered while isOpen && aiContent, so a toggle mounts
\* them afresh.
HandleGenerateIdeas ==
  /\ CardsShown(app)
  /\ ~eventCard.isLoading
  /\ IF eventCard.aiContent # Undefined
     THEN /\ eventCard' = [eventCard EXCEPT !.isOpen = ~@]
          /\ issued' = <<>>
     ELSE /\ eventCard' = [eventCard EXCEPT !.isLoading = TRUE, !.error = NULL,
                                            !.isOpen = TRUE, !.pending = TRUE]
          /\ issued' = <<"generateContentIdeas">>
  /\ ideaCard' = InitIdeaCard
  /\ UNCHANGED <<appVars, trendExplorer, marketPulse, metadataGenerator, svcVars>>

\* handleGenerateIdeas after its await
ContentIdeasSettles(resp) ==
  /\ eventCard.pending
  /\ \E out \in {generateContentIdeas(resp)} :
       eventCard' = [eventCard EXCEPT
                     !.aiContent = IF out.ok THEN out.data ELSE @,
                     !.error = IF out.ok THEN @ ELSE out.err,
                     !.isOpen = IF out.ok THEN @ ELSE FALSE,
                     !.isLoading = FALSE,
                     !.pending = FALSE]
  /\ issued' = <<>>
  /\ UNCHANGED <<appVars, trendExplorer, marketPulse, metadataGenerator, ideaCard, svcVars>>

\* the list whose first IdeaCard is on display has at least one idea
HasIdeas(d) == d # Undefined /\ Elements(Get(d, "ideas:")) # <<>>

IdeaCardShown ==
  \/ app.currentView = "trends" /\ HasIdeas(trendExplorer.aiReport)
  \/ CardsShown(app) /\ eventCard.isOpen /\ HasIdeas(eventCard.aiContent)

\* the data URL built from the image data
DataURL(imageData) == "data:image/jpeg;base64," \o imageData

\* IdeaCard.handleGenerateImage up to its await; the button is disabled while
\* isGeneratingImage
HandleGenerateImage ==
  /\ ~ideaCard.isGeneratingImage
  /\ IdeaCardShown
  /\ ideaCard' = [isGeneratingImage |-> TRUE, generatedImage |-> NULL,
                  imageError |-> NULL, pending |-> TRUE]
  /\ issued' = <<"generateInspirationalImage">>
  /\ UNCHANGED <<appVars, trendExplorer, marketPulse, metadataGenerator, eventCard, svcVars>>

\* IdeaCard.handleGenerateImage after its await
IdeaImageSettles(resp) ==
  /\ ideaCard.pending
  /\ \E out \in {generateInspirationalImage(resp)} :
       ideaCard' = [ideaCard EXCEPT
                    !.generatedImage = IF out.ok THEN DataURL(out.data[1]) ELSE @,
                    !.imageError = IF out.ok THEN @ ELSE out.err,
                    !.isGeneratingImage = FALSE,
                    !.pending = FALSE]
  /\ issued' = <<>>
  /\ UNCHANGED <<appVars, trendExplorer, marketPulse, metadataGenerator, eventCard, svcVars>>

----------------------------------------------------------------------------
(* Specifications *)

Init ==
  /\ fn = "findEvents"
  /\ countryCode = "US"
  /\ response = NetworkFailure
  /\ data = Undefined
  /\ result = Pending
  /\ settled = TRUE
  /\ InitUI

\* the events view with every kind of oracle answer to a search
Next ==
  \/ \E c \in DOMAIN COUNTRIES : SetCountry(c)
  \/ \E m \in DOMAIN MONTHS : SetMonth(m)
  \/ \E t \in ContentTypes : SetType(t)
  \/ HandleSubmit
  \/ \E resp \in EventsResponses : FindEventsSettles(resp)
  \/ \E i \in 1..ImageCount, resp \in ImageResponses : ImageSettles(i, resp)

Spec == Init /\ [][Next]_vars

\* the events view when the findEvents call of every search is answered;
\* nothing is assumed of the image calls, which the oracle may leave pending
SpecEventsAnswered ==
  Init /\ [][Next]_vars /\ WF_vars(\E resp \in EventsResponses : FindEventsSettles(resp))

\* the four views, each request answered by a usable response, an
\* unusable one or a failure
NextViews ==
  \/ \E v \in Views : SetCurrentView(v)
  \/ HandleSubmit
  \/ \E resp \in {TextResponse(FencedTwoEvents, ThreeChunks), NetworkFailure} :
       FindEventsSettles(resp)
  \/ \E i \in 1..ImageCount, resp \in {OneImage, NetworkFailure} : ImageSettles(i, resp)
  \/ \E t \in Inputs : SetTheme(t)
  \/ \E t \in ContentTypes : SetTrendContentType(t)
  \/ HandleGenerateTrends
  \/ \E s \in Suggestions : HandleSuggestionClick(s)
  \/ \E resp \in TrendResponses : TrendSettles(resp)
  \/ \E resp \in HotTopicsResponses : HotTopicsSettles(resp)
  \/ \E t \in Inputs : SetTopic(t)
  \/ HandleStrategySubmit
  \/ \E resp \in KeywordResponses : KeywordsSettles(resp)
  \/ \E t \in Inputs : SetMetadataTopic(t)
  \/ MetadataHandleSubmit
  \/ \E resp \in MetadataResponses : MetadataSettles(resp)
  \/ HandleGenerateIdeas
  \/ \E resp \in ContentResponses : ContentIdeasSettles(resp)
  \/ HandleGenerateImage
  \/ \E resp \in {OneImage, NetworkFailure} : IdeaImageSettles(resp)

SpecViews == Init /\ [][NextViews]_vars

\* the filters handleSearch may be called with: a country code and a month
\* of constants.ts or one that is not there
FilterValues ==
  [country : (DOMAIN COUNTRIES) \cup {"XX"}, month : (DOMAIN MONTHS) \cup {13},
   type : ContentTypes]

\* onSearch(filters): handleSearch called with any filters, when no search
\* is running
HandleSearchWith(filters) ==
  /\ app.currentView = "events"
  /\ ~(app.isSearchingEvents \/ app.isGeneratingGallery)
  /\ HandleSearch(filters)
  /\ eventCard' = InitEventCard
  /\ ideaCard' = InitIdeaCard
  /\ UNCHANGED <<filterBar, trendExplorer, marketPulse, metadataGenerator, svcVars>>

\* handleSearch as a function of its filters, with the oracle's answers
NextSearch ==
  \/ \E filters \in FilterValues : HandleSearchWith(filters)
  \/ \E resp \in EventsResponses : FindEventsSettles(resp)
  \/ \E i \in 1..ImageCount, resp \in ImageResponses : ImageSettles(i, resp)

SpecSearch == Init /\ [][NextSearch]_vars

\* the metadata view with its image upload: entering and leaving the view,
\* editing the topic, choosing and removing images, file reads finishing in
\* any order, submitting, and the oracle's answers
NextMetadata ==
  \/ \E v \in {"events", "metadata"} : SetCurrentView(v)
  \/ \E t \in Inputs : SetMetadataTopic(t)
  \/ \E f \in Files : HandleImageChange(f)
  \/ \E i \in 1..MaxReads, loaded \in BOOLEAN : FileReadSettles(i, loaded)
  \/ HandleRemoveImage
  \/ MetadataHandleSubmit
  \/ \E resp \in MetadataResponses : MetadataSettles(resp)

SpecMetadata == Init /\ [][NextMetadata]_vars

----------------------------------------------------------------------------
(* Claims about handleSearch *)

galleryPromise == generateInspirationGallery(search.imagePromises)

ImageFailed(i) == search.imagePromises[i].settled /\ ~search.imagePromises[i].out.ok
ImageSucceeded(i) == search.imagePromises[i].settled /\ search.imagePromises[i].out.ok

\* the running or last handleSearch has finished
SearchCompleted == search.pc = "idle" /\ search.eventsPromise.settled

\* C7: if one of the 4 image requests of the gallery has failed, whatever the
\* completion order, the gallery operation rejects, no image is exposed, and
\* once handleSearch has completed galleryError is set.
C7_GalleryAllOrNothing ==
  (\E i \in 1..ImageCount : ImageFailed(i)) =>
    /\ galleryPromise.settled /\ ~galleryPromise.out.ok
    /\ app.inspirationImages = <<>>
    /\ (SearchCompleted => app.galleryError = GALLERY_FAIL_MSG)

\* request 3 failed after the three others had succeeded, and the search is over
C7_Witness ==
  /\ SearchCompleted
  /\ ImageFailed(3)
  /\ \A i \in {1, 2, 4} : ImageSucceeded(i)
  /\ app.inspirationImages = <<>>
  /\ app.galleryError = GALLERY_FAIL_MSG

\* C8: when one of the events request and the gallery request fails and the
\* other succeeds, the final state holds the result of the one and the error
\* of the other.
C8_IndependentOutcomes ==
  SearchCompleted =>
    LET e == search.eventsPromise.out
        g == galleryPromise.out IN
    /\ (~e.ok /\ g.ok =>
          /\ app.inspirationImages = g.data /\ app.galleryError = NULL
          /\ app.error = e.err /\ app.events = <<>> /\ app.sources = <<>>)
    /\ (e.ok /\ ~g.ok =>
          /\ app.events = e.events /\ app.sources = e.sources /\ app.error = NULL
          /\ app.galleryError = g.err /\ app.inspirationImages = <<>>)

\* events failed, the gallery succeeded, both are on display
C8_Witness ==
  /\ SearchCompleted
  /\ ~search.eventsPromise.out.ok
  /\ app.error = FIND_MSG
  /\ app.inspirationImages = <<"img1", "img2", "img1", "img1">>
  /\ app.galleryError = NULL

\* C9: both requests are started before either is awaited, and the outcome of
\* each is surfaced (stored, loading flag cleared) once that request has
\* settled, without waiting for the other.
C9_SurfacedOnceSettled ==
  /\ (search.eventsPromise.settled => ~app.isSearchingEvents)
  /\ (galleryPromise.settled => ~app.isGeneratingGallery)

----------------------------------------------------------------------------
(* Claims about the oracle calls of the user interface *)

SearchCalls ==
  <<"findEvents">> \o [i \in 1..ImageCount |-> "generateInspirationalImage"]

\* the step is a user action that calls the oracle, and it issued each of its
\* calls exactly once
IssuedByUserAction ==
  \/ HandleSubmit /\ issued' = SearchCalls
  \/ SetCurrentView("market") /\ issued' = <<"getGlobalHotTopics">>
  \/ HandleGenerateTrends /\ issued' = <<"generateTrendingIdeas">>
  \/ (\E s \in Suggestions : HandleSuggestionClick(s))
       /\ issued' = <<"generateTrendingIdeas">>
  \/ HandleStrategySubmit /\ issued' = <<"generateKeywordStrategy">>
  \/ MetadataHandleSubmit /\ issued' = <<"generateStockMetadata">>
  \/ HandleGenerateIdeas /\ issued' = <<"generateContentIdeas">>
  \/ HandleGenerateImage /\ issued' = <<"generateInspirationalImage">>

\* a request begins in this step: a loading flag is raised
LoadingRaised ==
  \/ ~app.isSearchingEvents /\ app'.isSearchingEvents
  \/ ~trendExplorer.isLoading /\ trendExplorer'.isLoading
  \/ ~marketPulse.isKeywordsLoading /\ marketPulse'.isKeywordsLoading
  \/ ~metadataGenerator.isLoading /\ metadataGenerator'.isLoading
  \/ ~eventCard.isLoading /\ eventCard'.isLoading
  \/ ~ideaCard.isGeneratingImage /\ ideaCard'.isGeneratingImage

\* C10: no oracle request is re-issued automatically.  Every step that calls
\* the oracle is a user action, which issues each of its requests exactly once
\* (one events call and four image calls for a search, one call for any other
\* action); a step in which a response or a failure is handled calls nothing.
C10_NoAutomaticRetry ==
  [][ /\ (issued' # <<>> => IssuedByUserAction)
      /\ (LoadingRaised => issued' # <<>>) ]_vars

\* the search and a trend request have both failed, the failures are on
\* display, and nothing has been called since
C10_Witness ==
  /\ SearchCompleted
  /\ app.error = FIND_MSG
  /\ app.galleryError = GALLERY_FAIL_MSG
  /\ app.currentView = "trends"
  /\ trendExplorer.error = TREND_FAIL_MSG
  /\ ~trendExplorer.isLoading
  /\ issued = <<>>

----------------------------------------------------------------------------
(* Claims about overlapping requests *)

Issued(name) == \E i \in 1..Len(issued') : issued'[i] = name

----------------------------------------------------------------------------
(* Claims about input validation *)

\* C12: a submit that fails input validation (MetadataGenerator with empty
\* topic and no image file, TrendExplorer with empty theme, the keyword form
\* of MarketPulse with empty topic) sets only the error of the view to the
\* validation message: no oracle call is issued, and the loading flag, the
\* displayed result and hasSearched are unchanged.
C12_ValidationOnlySetsError ==
  [][ /\ (/\ MetadataHandleSubmit
          /\ metadataGenerator.topic = ""
          /\ metadataGenerator.imageFile = NULL) =>
            /\ metadataGenerator' = [metadataGenerator EXCEPT !.error = TOPIC_OR_IMAGE_MSG]
            /\ issued' = <<>>
      /\ (HandleGenerateTrends /\ trendExplorer.theme = "") =>
            /\ trendExplorer' = [trendExplorer EXCEPT !.error = THEME_MSG]
            /\ issued' = <<>>
      /\ (HandleStrategySubmit /\ marketPulse.topic = "") =>
            /\ marketPulse' = [marketPulse EXCEPT !.keywordsError = TOPIC_MSG]
            /\ issued' = <<>> ]_vars

\* the empty theme was submitted while a report of an earlier search is shown
C12_Witness ==
  /\ app.currentView = "trends"
  /\ trendExplorer.theme = ""
  /\ trendExplorer.error = THEME_MSG
  /\ trendExplorer.aiReport # Undefined
  /\ trendExplorer.hasSearched
  /\ ~trendExplorer.isLoading
  /\ issued = <<>>

----------------------------------------------------------------------------
(* Claims about the results held by App *)

\* C13: handleSearch resets events, sources, inspirationImages, error and
\* galleryError before any of its oracle calls settles, so from the start of
\* a search onward, also after that search has failed, no events, sources or
\* images of an earlier search are held: they are empty while the search
\* runs, and afterwards they are those of this search or empty.
C13_NoEarlierResults ==
  /\ search.pc = "await" =>
       /\ app.events = <<>> /\ app.sources = <<>> /\ app.inspirationImages = <<>>
       /\ app.error = NULL /\ app.galleryError = NULL
  /\ SearchCompleted =>
       LET e == search.eventsPromise.out
           g == galleryPromise.out IN
       /\ app.events = (IF e.ok THEN e.events ELSE <<>>)
       /\ app.sources = (IF e.ok THEN e.sources ELSE <<>>)
       /\ app.inspirationImages = (IF g.ok THEN g.data ELSE <<>>)

\* a search for the other country has failed altogether and nothing is held
C13_Witness ==
  /\ SearchCompleted
  /\ search.countryCode = "PK"
  /\ ~search.eventsPromise.out.ok
  /\ ~galleryPromise.out.ok
  /\ app.events = <<>> /\ app.sources = <<>> /\ app.inspirationImages = <<>>
  /\ app.error # NULL /\ app.galleryError # NULL

----------------------------------------------------------------------------
(* Claims about the structured-output endpoints *)

StructuredFns == TextFns \ FencedFns

\* C14: generateContentIdeas, generateTrendingIdeas, generateKeywordStrategy
\* and generateStockMetadata parse the trimmed payload directly, without
\* fence extraction, so a fenced payload is a failure; and they resolve only
\* with a parsed value that has the required top-level fields.
C14_StructuredParsedDirectly ==
  (settled /\ fn \in StructuredFns /\ response.ok) =>
    LET p == JSONParse(Trim(response.text)) IN
    /\ (ContainsFence(response.text) => ~result.ok)
    /\ (result.ok =>
          /\ p.ok
          /\ \A k \in Required(fn) : Get(p.v, k) # Undefined
          /\ result.data = (IF fn = "generateStockMetadata"
                            THEN Get(p.v, "metadata:") ELSE p.v))

\* a fence around a payload with both required fields was rejected
C14_Witness ==
  /\ settled /\ fn = "generateContentIdeas" /\ response.ok
  /\ response.text = FenceOnly(<<"{", "ideas:", "[", "{", "name:", "\"s\"", "}", "]", ",",
                                 "uploadTip:", "\"s\"", "}">>)
  /\ ~result.ok
  /\ result.err = CONTENT_FAIL_MSG

\* a JSON string, the empty one included
IsString(v) == Len(v) = 1 /\ v[1] \in {"\"\"", "\"s\"", "\"t\""}

TipKey(f) == IF f = "generateContentIdeas" THEN "uploadTip:" ELSE "audienceTip:"

\* C15: generateContentIdeas resolves with the parsed object, unchanged, for
\* every payload that is a JSON object with a top-level ideas array and a
\* top-level uploadTip string, an empty array and an empty string included;
\* likewise generateTrendingIdeas with ideas and audienceTip.
C15_PresentFieldsAccepted ==
  (/\ settled /\ response.ok
   /\ fn \in {"generateContentIdeas", "generateTrendingIdeas"}
   /\ JSONParse(Trim(response.text)).ok
   /\ IsArray(Get(JSONParse(Trim(response.text)).v, "ideas:"))
   /\ IsString(Get(JSONParse(Trim(response.text)).v, TipKey(fn)))) =>
    /\ result.ok
    /\ result.data = JSONParse(Trim(response.text)).v

----------------------------------------------------------------------------
(* Claims about what a view shows of a settled request *)

\* C16: for every request issued by a view, once its oracle call has settled
\* the loading flag of the request eventually becomes false, and if the call
\* failed the error state holds the message of the rejection.  Stated for the
\* events request of handleSearch: once the findEvents call has settled,
\* isSearchingEvents eventually becomes false, with error set to the message
\* if the call failed.
C16_SettledRequestSurfaces ==
  (search.pc = "await" /\ search.eventsPromise.settled)
    ~> (/\ ~app.isSearchingEvents
        /\ (~search.eventsPromise.out.ok => app.error = search.eventsPromise.out.err))

----------------------------------------------------------------------------
(* Claims about requests that stay pending *)

----------------------------------------------------------------------------
(* Claims about findEvents *)

\* C18: when findEvents finds a fence whose interior is not valid JSON, it
\* rejects with the malformed-response error; it does not fall back to the
\* whole text and resolves with no events.
C18_BadFenceInteriorMalformed ==
  (/\ settled /\ fn = "findEvents" /\ response.ok
   /\ FenceMatch(Trim(response.text)).found
   /\ ~IsValidJSON(FenceMatch(Trim(response.text)).body)) =>
    /\ ~result.ok
    /\ result.err = PARSE_MSG

----------------------------------------------------------------------------
(* Claims about generateInspirationGallery *)

\* C19: generateInspirationGallery starts exactly 4 generateInspirationalImage
\* calls, with the same query and content type, all before any of them is
\* awaited; on success it resolves with exactly 4 images in issue order,
\* whatever the order in which the calls completed.
C19_GalleryFourInIssueOrder ==
  /\ LET calls == GalleryCalls(app.searchQuery, app.contentType) IN
     /\ Len(calls) = 4
     /\ \A i \in 1..Len(calls) :
          calls[i] = [prompt |-> app.searchQuery, contentType |-> app.contentType]
  /\ Len(search.imagePromises) = 4
  /\ issued = SearchCalls => \A i \in 1..4 : ~search.imagePromises[i].settled
  /\ (galleryPromise.settled /\ galleryPromise.out.ok) =>
       /\ Len(galleryPromise.out.data) = 4
       /\ \A i \in 1..4 : galleryPromise.out.data[i] = search.imagePromises[i].out.data[1]
       /\ (SearchCompleted => app.inspirationImages = galleryPromise.out.data)

\* the gallery succeeded with different images in the first and last place
C19_Witness ==
  /\ SearchCompleted
  /\ galleryPromise.out.ok
  /\ search.imagePromises[1].out.data = <<"img2">>
  /\ search.imagePromises[4].out.data = <<"img1">>
  /\ app.inspirationImages[1] = "img2"
  /\ app.inspirationImages[4] = "img1"

Range(q) == {q[i] : i \in 1..Len(q)}

\* C20: findEvents returns the events of the oracle response in the order of
\* the oracle, one output event per input event, each with country set to the
\* requested countryCode, also when the event of the oracle carries another
\* country.
C20_EventsInOrderWithCountry ==
  (settled /\ fn = "findEvents" /\ result.ok) =>
    LET evs == Elements(Get(result.data, "events:")) IN
    /\ Len(result.events) = Len(evs)
    /\ \A i \in 1..Len(evs) :
         /\ result.events[i].country = countryCode
         /\ Range(result.events[i].props) =
              {m \in Range(Members(evs[i])) : m.k # "country:"}

\* two events, the first with a country of its own, returned for PK
C20_Witness ==
  /\ settled /\ fn = "findEvents" /\ result.ok
  /\ countryCode = "PK"
  /\ Len(result.events) = 2
  /\ Get(Elements(Get(result.data, "events:"))[1], "country:") = <<"\"t\"">>
  /\ result.events[1] = [props |-> <<[k |-> "name:", v |-> <<"\"s\"">>]>>, country |-> "PK"]
  /\ result.events[2] = [props |-> <<[k |-> "name:", v |-> <<"\"t\"">>]>>, country |-> "PK"]

----------------------------------------------------------------------------
(* Claims about the state written by handleSearch *)

\* handleSearch resumes in this step: its await is over
SearchResumes == search.pc = "await" /\ search'.pc = "idle"

\* C21: when handleSearch handles the two outcomes, the events outcome
\* decides events, sources and error only (with isSearchingEvents cleared),
\* the gallery outcome decides inspirationImages and galleryError only (with
\* isGeneratingGallery cleared), and hasSearched, contentType, searchQuery and
\* currentView are as they were.
C21_OutcomeFrames ==
  [][ SearchResumes =>
        LET e == search'.eventsPromise.out
            g == generateInspirationGallery(search'.imagePromises).out IN
        /\ app'.hasSearched = app.hasSearched
        /\ app'.contentType = app.contentType
        /\ app'.searchQuery = app.searchQuery
        /\ app'.currentView = app.currentView
        /\ ~app'.isSearchingEvents /\ ~app'.isGeneratingGallery
        /\ IF e.ok
           THEN /\ app'.events = e.events /\ app'.sources = e.sources
                /\ app'.error = app.error
           ELSE /\ app'.events = app.events /\ app'.sources = app.sources
                /\ app'.error = e.err
        /\ IF g.ok
           THEN /\ app'.inspirationImages = g.data
                /\ app'.galleryError = app.galleryError
           ELSE /\ app'.inspirationImages = app.inspirationImages
                /\ app'.galleryError = g.err ]_vars

\* a search made for January in the United States was completed while the
\* trends view was on display: events found, gallery failed
C21_Witness ==
  /\ SearchCompleted
  /\ app.currentView = "trends"
  /\ app.hasSearched
  /\ app.contentType = "Photo"
  /\ app.searchQuery = Query("January", "United States")
  /\ Len(app.events) = 2
  /\ app.error = NULL
  /\ app.inspirationImages = <<>>
  /\ app.galleryError = GALLERY_FAIL_MSG
  /\ ~app.isSearchingEvents /\ ~app.isGeneratingGallery

----------------------------------------------------------------------------
(* Claims about the image upload of MetadataGenerator *)

\* C22: generateStockMetadata is never invoked with both an empty topic and
\* no image attachment, under any interleaving of image selection, file
\* reading, image removal and form submission.
C22_NeverCalledEmpty ==
  [][ Issued("generateStockMetadata") =>
        ~(metadataGenerator'.args[1] = "" /\ metadataGenerator'.args[3] = Undefined) ]_vars

\* C23: whenever imageFile and imageBase64 are both non-null, imageBase64 is
\* the encoding of that imageFile, under any interleaving of successive image
\* selections and completions of their file reads.
C23_Base64OfImageFile ==
  (metadataGenerator.imageFile # NULL /\ metadataGenerator.imageBase64 # NULL) =>
    metadataGenerator.imageBase64 = fileToBase64(metadataGenerator.imageFile)

----------------------------------------------------------------------------
(* Claims about the controls *)

----------------------------------------------------------------------------
(* Claims about handleSearch as a function of its filters *)

\* C25: after every step of handleSearch (its start, the invalid-selection
\* return, while it awaits, after its completion) isSearchingEvents equals
\* isGeneratingGallery: the flags are set together and cleared together.
C25_FlagsTogether == app.isSearchingEvents = app.isGeneratingGallery

\* the events call has settled, the gallery has not, and both flags are set
C25_Witness ==
  /\ search.pc = "await"
  /\ search.eventsPromise.settled
  /\ ~galleryPromise.settled
  /\ app.isSearchingEvents /\ app.isGeneratingGallery

\* C26: in every reachable state of App, error non-null implies that events
\* and sources are empty, and galleryError non-null implies that
\* inspirationImages is empty.
C26_ErrorMeansNoResult ==
  /\ app.error # NULL => app.events = <<>> /\ app.sources = <<>>
  /\ app.galleryError # NULL => app.inspirationImages = <<>>

\* events were found and the gallery failed: galleryError is set, no image
C26_Witness ==
  /\ SearchCompleted
  /\ app.error = NULL
  /\ Len(app.events) = 2 /\ Len(app.sources) = 2
  /\ app.galleryError = GALLERY_FAIL_MSG
  /\ app.inspirationImages = <<>>

\* C28: handleSearch called with a country code not in COUNTRIES or a month
\* not in MONTHS sets error to the invalid-selection message, issues no
\* oracle call, and ends with both loading flags false, events, sources and
\* images empty, galleryError null, hasSearched true and searchQuery unchanged.
C28_InvalidSelection ==
  [][ \A filters \in FilterValues :
        (HandleSearchWith(filters)
           /\ (filters.country \notin {"US", "PK"} \/ filters.month \notin {1, 12})) =>
          /\ app'.error = "Invalid country or month selected."
          /\ issued' = <<>>
          /\ search'.pc = "idle"
          /\ ~app'.isSearchingEvents /\ ~app'.isGeneratingGallery
          /\ app'.events = <<>> /\ app'.sources = <<>> /\ app'.inspirationImages = <<>>
          /\ app'.galleryError = NULL
          /\ app'.hasSearched
          /\ app'.searchQuery = app.searchQuery ]_vars

\* after a search for December in Pakistan, a call with an invalid selection
\* has left the message, no result, and the query of the earlier search
C28_Witness ==
  /\ app.error = INVALID_SELECTION_MSG
  /\ app.searchQuery = Query("December", "Pakistan")
  /\ app.hasSearched
  /\ search.pc = "idle"
  /\ ~app.isSearchingEvents /\ ~app.isGeneratingGallery
  /\ app.events = <<>> /\ app.inspirationImages = <<>>
  /\ issued = <<>>

----------------------------------------------------------------------------
(* Claims about the display of TrendExplorer *)

\* C29: whenever TrendExplorer displays a report, the theme named in the
\* heading of the report and the content type passed to the image generation
\* of its idea cards are the theme and the content type with which that
\* report was requested, after any sequence of input edits and searches.
C29_ReportShowsItsRequest ==
  (app.currentView = "trends" /\ trendExplorer.aiReport # Undefined) =>
    /\ ReportHeading(trendExplorer) = trendExplorer.args[1]
    /\ IdeaCardContentType(trendExplorer) = trendExplorer.args[2]

----------------------------------------------------------------------------
(* Claims about EventCard *)

\* the insights panel of the card: isOpen && aiContent
PanelShown == CardsShown(app) /\ eventCard.isOpen /\ eventCard.aiContent # Undefined

\* C27: in EventCard, once generateContentIdeas has succeeded, a click only
\* toggles isOpen and calls nothing; after a failed generation aiContent is
\* null, isOpen is false, error is set and isLoading is false, and the next
\* click issues a new request.  The insights panel, and with it the idea
\* cards, is shown only when isOpen is true and aiContent is non-null.
C27_IdeasRequestedOnce ==
  [][ /\ (HandleGenerateIdeas /\ eventCard.aiContent # Undefined) =>
           /\ issued' = <<>>
           /\ eventCard' = [eventCard EXCEPT !.isOpen = ~eventCard.isOpen]
      /\ (HandleGenerateIdeas /\ eventCard.aiContent = Undefined) =>
           /\ issued' = <<"generateContentIdeas">>
           /\ eventCard'.pending /\ eventCard'.isLoading
      /\ (\E resp \in ContentResponses :
            ContentIdeasSettles(resp) /\ ~generateContentIdeas(resp).ok) =>
           /\ eventCard'.aiContent = Undefined
           /\ ~eventCard'.isOpen
           /\ eventCard'.error # NULL
           /\ ~eventCard'.isLoading
           /\ ~eventCard'.pending
      /\ (eventCard.error # NULL) =>
           /\ eventCard.aiContent = Undefined /\ ~eventCard.isOpen /\ ~eventCard.isLoading
      /\ (CardsShown(app) /\ IdeaCardShown) => (eventCard.isOpen /\ eventCard.aiContent # Undefined)
      /\ (eventCard.isOpen /\ eventCard.aiContent = Undefined) => (eventCard.isLoading /\ ~PanelShown)
    ]_vars

\* the ideas were generated and a later click has closed the panel
C27_Witness ==
  /\ CardsShown(app)
  /\ eventCard.aiContent # Undefined
  /\ ~eventCard.isOpen
  /\ ~eventCard.isLoading
  /\ eventCard.error = NULL
  /\ ~PanelShown
  /\ issued = <<>>

====
